---- MODULE Spec2Model ----
(***************************************************************************)
(* Model of package cmd (perillo/cmd): a command tree, the resolver Parse  *)
(* that selects a subcommand and delegates flag parsing, the driver Run,   *)
(* and the name helpers LongName and String.                               *)
(*                                                                         *)
(* Strings are sequences of one-character strings, so that the flag        *)
(* syntax (leading minus signs, the "--" terminator) and the joining of    *)
(* names with spaces are computed and not assumed.                         *)
(***************************************************************************)
EXTENDS Integers, Sequences, FiniteSets, TLC

\* Longest argument vector (os.Args[1:]) handed to Parse or Run.
MaxArgs == 4

\* Number of Command values of the tree; also the longest parent chain.
NumCmds == 4

\* The nil *Command.
NIL == 0

Cmds == 1..NumCmds

\* ---- strings -----------------------------------------------------------

s_test == <<"t", "e", "s", "t">>
s_cmd == <<"c", "m", "d">>
s_a == <<"a">>
s_exe == <<"e", "x", "e">>
s_v == <<"v">>
s_h == <<"h">>
s_help == <<"h", "e", "l", "p">>
s_empty == <<>>

\* The tokens an argument vector is made of.
Tokens == {s_cmd, s_a, <<"-">> \o s_v, <<"-">> \o s_h, <<"-">> \o s_help, <<"-", "-">>}

\* Flag sets a command may define (all flags are boolean, default false).
FormalSets == {{}, {s_v}, {s_v, s_h}}

\* Names a command of a hand-built parent chain may have.
ChainNames == {s_test, s_cmd, s_a, s_empty}

\* Values a run behaviour may return.
ExitCodes == {0, 1}

RECURSIVE SeqsUpTo(_, _)
SeqsUpTo(S, n) ==
  IF n = 0 THEN {<<>>}
  ELSE LET shorter == SeqsUpTo(S, n - 1)
       IN shorter \cup {Append(s, x) : s \in {t \in shorter : Len(t) = n - 1}, x \in S}

Argvs == SeqsUpTo(Tokens, MaxArgs)

\* ---- errors ------------------------------------------------------------

ErrNil == "nil"
ErrHelp == "flag: help requested"
ErrNoCommand == "no command"
ErrUnknownCommand == "unknown command"
ErrNotDefined == "flag provided but not defined"
ErrBadSyntax == "bad flag syntax"

\* ---- exit status constants ---------------------------------------------

ExitSuccess == 0
ExitFailure == 1
ExitUsageError == 2

\* ---- state -------------------------------------------------------------

VARIABLES
  Name,         \* Command.Name
  RunSet,       \* Command.Run != nil
  CustomFlags,  \* Command.CustomFlags
  Commands,     \* Command.Commands, a sequence of commands
  parent,       \* Command.parent, NIL when nil
  Flag,         \* Command.Flag, the command's flag.FlagSet
  pc,           \* "start", or the operation that was called
  main,         \* the command handed to Parse or Run
  argv,         \* the argument vector (os.Args[1:])
  ret,          \* what Parse returned: [cmd, err]
  invoked,      \* the calls of run behaviours made by Run: [cmd, args]
  status,       \* what Run returned, -1 before
  stderr,       \* what was written to os.Stderr: [msg, cmd]
  out,          \* what LongName or String returned
  trace,        \* the steps of the last Parse or Run, in order: [op, cmd, arg]
  exitStatus,   \* var exitStatus
  exitMu,       \* var exitMu: the goroutine that holds it, NoGor when free
  atExitFuncs,  \* var atExitFuncs: the registered functions, in order
  gor,          \* each goroutine's position in the call it is making
  raised,       \* the arguments of the SetExitStatus calls that returned
  exited,       \* the status os.Exit was called with, NoExit before
  calls,        \* the number of calls of the functions below made so far
  access        \* the last access to exitStatus: [gor, kind, holder]

cmdVars == <<Name, RunSet, CustomFlags, Commands, parent, Flag, pc, main, argv,
             ret, invoked, status, stderr, out, trace>>

exitVars == <<exitStatus, exitMu, atExitFuncs, gor, raised, exited, calls,
              access>>

vars == <<Name, RunSet, CustomFlags, Commands, parent, Flag, pc, main, argv,
          ret, invoked, status, stderr, out, trace, exitStatus, exitMu,
          atExitFuncs, gor, raised, exited, calls, access>>

\* ---- the exit status, before any call ----------------------------------

\* Number of goroutines that call the exit-status functions.
NumGors == 2

Gors == 1..NumGors

\* No goroutine: the holder of a free mutex.
NoGor == 0

\* os.Exit was not called.
NoExit == -1

\* A goroutine that is making no call.
IdleGor == [pc |-> "idle", n |-> 0, from |-> "", also |-> "", did |-> "",
            i |-> 0, funcs |-> <<>>, called |-> <<>>, got |-> NoExit]

NoAccess == [gor |-> NoGor, in |-> "", kind |-> "", holder |-> NoGor,
             old |-> 0, new |-> 0]

\* The package-level variables as the program starts.
ExitInit ==
  /\ exitStatus = 0
  /\ exitMu = NoGor
  /\ atExitFuncs = <<>>
  /\ gor = [g \in Gors |-> IdleGor]
  /\ raised = {}
  /\ exited = NoExit
  /\ calls = 0
  /\ access = NoAccess

\* ---- Command.LongName, Command.String, Command.Runnable ----------------

RECURSIVE LongNameLoop(_, _, _)
LongNameLoop(par, cmd, name) ==
  IF par[cmd] = NIL THEN name
  ELSE LongNameLoop(par, par[cmd], Name[cmd] \o <<" ">> \o name)

LongNameOf(par, c) ==
  IF par[c] = NIL THEN s_empty
  ELSE LongNameLoop(par, par[c], Name[c])

LongName(c) == LongNameOf(parent, c)

\* A faulty StringLoop: the loop of LongName, which stops below the root.
RECURSIVE StringLoopStopsAtRoot(_, _, _)
StringLoopStopsAtRoot(par, cmd, name) ==
  IF cmd = NIL \/ par[cmd] = NIL THEN name
  ELSE StringLoopStopsAtRoot(par, par[cmd], Name[cmd] \o <<" ">> \o name)

RECURSIVE StringLoop(_, _, _)
StringLoop(par, cmd, name) ==
  IF cmd = NIL THEN name
  ELSE StringLoop(par, par[cmd], Name[cmd] \o <<" ">> \o name)

StringOf(par, c) == StringLoop(par, par[c], Name[c])

String(c) == StringOf(parent, c)

Runnable(c) == RunSet[c]

\* ---- flag.FlagSet ------------------------------------------------------

\* A FlagSet as Init leaves it: the zero value plus the flags Bool defined.
NewFlagSet(formal) ==
  [name |-> s_empty, errorHandling |-> "ContinueOnError", formal |-> formal,
   actual |-> {}, args |-> <<>>, parsed |-> FALSE, output |-> "nil",
   usage |-> "nil"]

\* FlagSet.Output: os.Stderr unless an output was set.
Output(f) == IF f.output = "nil" THEN "stderr" ELSE f.output

\* FlagSet.parseOne: parses one flag. seen reports whether a flag was seen,
\* wrote whether a message (and the usage) went to f.Output().
parseOne(f) ==
  IF Len(f.args) = 0
  THEN [f |-> f, seen |-> FALSE, err |-> ErrNil, wrote |-> FALSE]
  ELSE
    LET s == f.args[1] IN
    IF Len(s) < 2 \/ s[1] # "-"
    THEN [f |-> f, seen |-> FALSE, err |-> ErrNil, wrote |-> FALSE]
    ELSE
      LET numMinuses == IF s[2] = "-" THEN 2 ELSE 1 IN
      IF numMinuses = 2 /\ Len(s) = 2
      THEN \* "--" terminates the flags
           [f |-> [f EXCEPT !.args = Tail(f.args)], seen |-> FALSE,
            err |-> ErrNil, wrote |-> FALSE]
      ELSE
        LET name == SubSeq(s, numMinuses + 1, Len(s)) IN
        IF Len(name) = 0 \/ name[1] = "-" \/ name[1] = "="
        THEN [f |-> f, seen |-> FALSE, err |-> ErrBadSyntax, wrote |-> TRUE]
        ELSE
          LET f1 == [f EXCEPT !.args = Tail(f.args)] IN
          IF name \notin f.formal
          THEN IF name = s_help \/ name = s_h
               THEN [f |-> f1, seen |-> FALSE, err |-> ErrHelp, wrote |-> TRUE]
               ELSE [f |-> f1, seen |-> FALSE, err |-> ErrNotDefined,
                     wrote |-> TRUE]
          ELSE \* a boolean flag needs no argument
               [f |-> [f1 EXCEPT !.actual = @ \cup {name}], seen |-> TRUE,
                err |-> ErrNil, wrote |-> FALSE]

RECURSIVE parseAll(_)
parseAll(f) ==
  LET r == parseOne(f) IN
  IF r.seen THEN parseAll(r.f) ELSE r

\* FlagSet.Parse with ContinueOnError: the error is returned to the caller.
FlagParse(f, arguments) ==
  parseAll([f EXCEPT !.parsed = TRUE, !.args = arguments])

\* ---- Parse -------------------------------------------------------------

\* configure: c.Flag.Init(c.String(), flag.ContinueOnError), output discarded.
configure(F, par, c) ==
  [F EXCEPT ![c] = [@ EXCEPT !.name = StringOf(par, c),
                             !.errorHandling = "ContinueOnError",
                             !.output = "discard"]]

\* A faulty restore: the output is left where configure put it.
restoreKeepsOutput(F, c) ==
  [F EXCEPT ![c] = [@ EXCEPT !.usage = "c.usage"]]

\* The restore function configure returns.
restore(F, c) ==
  [F EXCEPT ![c] = [@ EXCEPT !.usage = "c.usage", !.output = "nil"]]

\* What a FlagSet.Parse that wrote a message adds to the real error stream.
Leak(f, r, c) ==
  IF r.wrote /\ Output(f) = "stderr" THEN << [msg |-> r.err, cmd |-> c] >> ELSE <<>>

\* One step of Parse or Run, as the trace records it.
Ev(op, c, arg) == [op |-> op, cmd |-> c, arg |-> arg]

\* A step that configures or restores c.Flag records the output c.Flag had
\* before configure, or has after restore; a step that parses c.Flag records
\* where its messages go.
EvConfigure(F, c) == Ev("configure", c, Output(F[c]))

EvFlagParse(F, c) == Ev("Flag.Parse", c, Output(F[c]))

EvRestore(F, c) == Ev("restore", c, Output(restore(F, c)[c]))

\* The steps of Parse up to the return from main.Flag.Parse: F is the flag
\* sets as configure(main) left them.
RootSteps(F, m) == << EvConfigure(Flag, m), EvFlagParse(F, m) >>

\* The return of Parse from the root level and the deferred restore of main.
RootReturn(F, m, err) == << Ev("return", m, err), EvRestore(F, m) >>

\* The steps of the loop body for the matched command cmd, the return and the
\* deferred restores; F is the flag sets as configure(cmd) found them.
ChildSteps(F, m, cmd, err) ==
  << Ev("parent", cmd, ""), EvConfigure(F, cmd) >>
  \o (IF CustomFlags[cmd] THEN <<>>
      ELSE << EvFlagParse(configure(F, parent, cmd), cmd) >>)
  \o << Ev("return", cmd, err), EvRestore(F, cmd), EvRestore(F, m) >>

\* A faulty lookupFrom: a command that is not runnable is skipped.
RECURSIVE lookupFromRunnable(_, _, _)
lookupFromRunnable(cmds, name, i) ==
  IF i > Len(cmds) THEN 0
  ELSE IF Name[cmds[i]] # name THEN lookupFromRunnable(cmds, name, i + 1)
  ELSE IF ~Runnable(cmds[i]) THEN lookupFromRunnable(cmds, name, i + 1)
  ELSE i

\* The scan of main.Commands: the index of the first command named name, or 0.
RECURSIVE lookupFrom(_, _, _)
lookupFrom(cmds, name, i) ==
  IF i > Len(cmds) THEN 0
  ELSE IF Name[cmds[i]] # name THEN lookupFrom(cmds, name, i + 1)
  ELSE i

lookup(m, name) == lookupFrom(Commands[m], name, 1)

\* A faulty ParseCommand: cmd.parent is not set.
ParseCommandNoParent(F, m, cmd, args) ==
  LET F1 == configure(F, parent, cmd)
  IN IF CustomFlags[cmd]
     THEN [cmd |-> cmd, err |-> ErrNil, parent |-> parent,
           Flag |-> restore(restore(F1, cmd), m), stderr |-> <<>>,
           trace |-> ChildSteps(F, m, cmd, ErrNil)]
     ELSE LET r == FlagParse(F1[cmd], Tail(args))
              F2 == [F1 EXCEPT ![cmd] = r.f]
          IN [cmd |-> cmd, err |-> r.err, parent |-> parent,
              Flag |-> restore(restore(F2, cmd), m),
              stderr |-> Leak(F1[cmd], r, cmd),
              trace |-> ChildSteps(F, m, cmd, r.err)]

\* A faulty ParseCommand: the test of CustomFlags is inverted.
ParseCommandCustomInverted(F, m, cmd, args) ==
  LET par1 == [parent EXCEPT ![cmd] = m]
      F1 == configure(F, par1, cmd)
  IN IF ~CustomFlags[cmd]
     THEN [cmd |-> cmd, err |-> ErrNil, parent |-> par1,
           Flag |-> restore(restore(F1, cmd), m), stderr |-> <<>>,
           trace |-> ChildSteps(F, m, cmd, ErrNil)]
     ELSE LET r == FlagParse(F1[cmd], Tail(args))
              F2 == [F1 EXCEPT ![cmd] = r.f]
          IN [cmd |-> cmd, err |-> r.err, parent |-> par1,
              Flag |-> restore(restore(F2, cmd), m),
              stderr |-> Leak(F1[cmd], r, cmd),
              trace |-> ChildSteps(F, m, cmd, r.err)]

\* A faulty ParseCommand: a failure of cmd's flags is returned with main.
ParseCommandReturnsMain(F, m, cmd, args) ==
  LET par1 == [parent EXCEPT ![cmd] = m]
      F1 == configure(F, par1, cmd)
  IN IF CustomFlags[cmd]
     THEN [cmd |-> cmd, err |-> ErrNil, parent |-> par1,
           Flag |-> restore(restore(F1, cmd), m), stderr |-> <<>>,
           trace |-> ChildSteps(F, m, cmd, ErrNil)]
     ELSE LET r == FlagParse(F1[cmd], Tail(args))
              F2 == [F1 EXCEPT ![cmd] = r.f]
          IN [cmd |-> IF r.err # ErrNil THEN m ELSE cmd, err |-> r.err,
              parent |-> par1,
              Flag |-> restore(restore(F2, cmd), m),
              stderr |-> Leak(F1[cmd], r, cmd),
              trace |-> ChildSteps(F, m, cmd, r.err)]

\* A faulty ParseCommand: cmd.Flag parses args, the selector included.
ParseCommandKeepsSelector(F, m, cmd, args) ==
  LET par1 == [parent EXCEPT ![cmd] = m]
      F1 == configure(F, par1, cmd)
  IN IF CustomFlags[cmd]
     THEN [cmd |-> cmd, err |-> ErrNil, parent |-> par1,
           Flag |-> restore(restore(F1, cmd), m), stderr |-> <<>>,
           trace |-> ChildSteps(F, m, cmd, ErrNil)]
     ELSE LET r == FlagParse(F1[cmd], args)
              F2 == [F1 EXCEPT ![cmd] = r.f]
          IN [cmd |-> cmd, err |-> r.err, parent |-> par1,
              Flag |-> restore(restore(F2, cmd), m),
              stderr |-> Leak(F1[cmd], r, cmd),
              trace |-> ChildSteps(F, m, cmd, r.err)]

\* A faulty ParseCommand: the tokens after the selector are parsed by
\* main.Flag instead of cmd.Flag.
ParseCommandUsesMainFlag(F, m, cmd, args) ==
  LET par1 == [parent EXCEPT ![cmd] = m]
      F1 == configure(F, par1, cmd)
  IN IF CustomFlags[cmd]
     THEN [cmd |-> cmd, err |-> ErrNil, parent |-> par1,
           Flag |-> restore(restore(F1, cmd), m), stderr |-> <<>>,
           trace |-> ChildSteps(F, m, cmd, ErrNil)]
     ELSE LET r == FlagParse(F1[m], Tail(args))
              F2 == [F1 EXCEPT ![m] = r.f]
          IN [cmd |-> cmd, err |-> r.err, parent |-> par1,
              Flag |-> restore(restore(F2, cmd), m),
              stderr |-> Leak(F1[m], r, cmd),
              trace |-> ChildSteps(F, m, cmd, r.err)]

\* A faulty ParseCommand: every command named like cmd gets main as parent.
ParseCommandParentsNamesakes(F, m, cmd, args) ==
  LET par1 == [c \in Cmds |-> IF Name[c] = Name[cmd] THEN m ELSE parent[c]]
      F1 == configure(F, par1, cmd)
  IN IF CustomFlags[cmd]
     THEN [cmd |-> cmd, err |-> ErrNil, parent |-> par1,
           Flag |-> restore(restore(F1, cmd), m), stderr |-> <<>>,
           trace |-> ChildSteps(F, m, cmd, ErrNil)]
     ELSE LET r == FlagParse(F1[cmd], Tail(args))
              F2 == [F1 EXCEPT ![cmd] = r.f]
          IN [cmd |-> cmd, err |-> r.err, parent |-> par1,
              Flag |-> restore(restore(F2, cmd), m),
              stderr |-> Leak(F1[cmd], r, cmd),
              trace |-> ChildSteps(F, m, cmd, r.err)]

\* The body of the loop of Parse for the matched command cmd; the deferred
\* restore of cmd runs before the deferred restore of main.
ParseCommand(F, m, cmd, args) ==
  LET par1 == [parent EXCEPT ![cmd] = m]
      F1 == configure(F, par1, cmd)
  IN IF CustomFlags[cmd]
     THEN [cmd |-> cmd, err |-> ErrNil, parent |-> par1,
           Flag |-> restore(restore(F1, cmd), m), stderr |-> <<>>,
           trace |-> ChildSteps(F, m, cmd, ErrNil)]
     ELSE LET r == FlagParse(F1[cmd], Tail(args))
              F2 == [F1 EXCEPT ![cmd] = r.f]
          IN [cmd |-> cmd, err |-> r.err, parent |-> par1,
              Flag |-> restore(restore(F2, cmd), m),
              stderr |-> Leak(F1[cmd], r, cmd),
              trace |-> ChildSteps(F, m, cmd, r.err)]

\* A faulty Parse: an empty residual is reported as an unknown command.
ParseNoCommandAsUnknown(m, av) ==
  LET F0 == configure(Flag, parent, m)
      r == FlagParse(F0[m], av)
      F1 == [F0 EXCEPT ![m] = r.f]
      args == r.f.args
  IN IF r.err # ErrNil
     THEN [cmd |-> m, err |-> r.err, parent |-> parent,
           Flag |-> restore(F1, m), stderr |-> Leak(F0[m], r, m),
           trace |-> RootSteps(F0, m) \o RootReturn(F1, m, r.err)]
     ELSE IF Len(args) < 1 \/ lookup(m, args[1]) = 0
     THEN [cmd |-> m, err |-> ErrUnknownCommand, parent |-> parent,
           Flag |-> restore(F1, m), stderr |-> <<>>,
           trace |-> RootSteps(F0, m)
                     \o RootReturn(F1, m, ErrUnknownCommand)]
     ELSE [ParseCommand(F1, m, Commands[m][lookup(m, args[1])], args)
             EXCEPT !.trace = RootSteps(F0, m) \o << Ev("args[0]", m, "") >> \o @]

\* A faulty Parse: after a failure of the root's flags that leaves arguments,
\* the subcommand is looked up all the same.
ParseIgnoresRootError(m, av) ==
  LET F0 == configure(Flag, parent, m)
      r == FlagParse(F0[m], av)
      F1 == [F0 EXCEPT ![m] = r.f]
      args == r.f.args
  IN IF r.err # ErrNil /\ Len(args) < 1
     THEN [cmd |-> m, err |-> r.err, parent |-> parent,
           Flag |-> restore(F1, m), stderr |-> Leak(F0[m], r, m),
           trace |-> RootSteps(F0, m) \o RootReturn(F1, m, r.err)]
     ELSE IF Len(args) < 1
     THEN [cmd |-> m, err |-> ErrNoCommand, parent |-> parent,
           Flag |-> restore(F1, m), stderr |-> <<>>,
           trace |-> RootSteps(F0, m) \o RootReturn(F1, m, ErrNoCommand)]
     ELSE LET i == lookup(m, args[1]) IN
          IF i = 0
          THEN [cmd |-> m, err |-> ErrUnknownCommand, parent |-> parent,
                Flag |-> restore(F1, m), stderr |-> <<>>,
                trace |-> RootSteps(F0, m) \o << Ev("args[0]", m, "") >>
                          \o RootReturn(F1, m, ErrUnknownCommand)]
          ELSE [ParseCommand(F1, m, Commands[m][i], args)
                  EXCEPT !.trace = RootSteps(F0, m)
                                   \o << Ev("args[0]", m, "") >> \o @]

\* Parse(main, argv): the selected command, the error, and the flag sets and
\* parent links as the call leaves them.
Parse(m, av) ==
  LET F0 == configure(Flag, parent, m)
      r == FlagParse(F0[m], av)
      F1 == [F0 EXCEPT ![m] = r.f]
      args == r.f.args
  IN IF r.err # ErrNil
     THEN [cmd |-> m, err |-> r.err, parent |-> parent,
           Flag |-> restore(F1, m), stderr |-> Leak(F0[m], r, m),
           trace |-> RootSteps(F0, m) \o RootReturn(F1, m, r.err)]
     ELSE IF Len(args) < 1
     THEN [cmd |-> m, err |-> ErrNoCommand, parent |-> parent,
           Flag |-> restore(F1, m), stderr |-> <<>>,
           trace |-> RootSteps(F0, m) \o RootReturn(F1, m, ErrNoCommand)]
     ELSE LET i == lookup(m, args[1]) IN
          IF i = 0
          THEN [cmd |-> m, err |-> ErrUnknownCommand, parent |-> parent,
                Flag |-> restore(F1, m), stderr |-> <<>>,
                trace |-> RootSteps(F0, m) \o << Ev("args[0]", m, "") >>
                          \o RootReturn(F1, m, ErrUnknownCommand)]
          ELSE [ParseCommand(F1, m, Commands[m][i], args)
                  EXCEPT !.trace = RootSteps(F0, m)
                                   \o << Ev("args[0]", m, "") >> \o @]

\* ---- the command tree --------------------------------------------------

\* The tree the resolver works on: test -> (cmd, cmd|a), cmd -> a.
TreeCommands ==
  [c \in Cmds |-> IF c = 1 THEN <<2, 3>>
                  ELSE IF c = 2 THEN [i \in 1..(NumCmds - 3) |-> i + 3]
                  ELSE <<>>]

NoRet == [cmd |-> NIL, err |-> "none"]

Init ==
  /\ \E n3 \in {s_cmd, s_a} :
       Name = [c \in Cmds |-> IF c = 1 THEN s_test
                              ELSE IF c = 2 THEN s_cmd
                              ELSE IF c = 3 THEN n3 ELSE s_a]
  /\ \E r2 \in BOOLEAN :
       RunSet = [c \in Cmds |-> IF c = 1 THEN FALSE
                                ELSE IF c = 2 THEN r2 ELSE TRUE]
  /\ \E cf \in BOOLEAN : CustomFlags = [c \in Cmds |-> c = 2 /\ cf]
  /\ Commands = TreeCommands
  /\ parent = [c \in Cmds |-> NIL]
  /\ \E f1 \in {{}, {s_v}}, f2 \in FormalSets :
       Flag = [c \in Cmds |-> NewFlagSet(IF c = 1 THEN f1
                                         ELSE IF c = 2 THEN f2 ELSE {s_v})]
  /\ pc = "start"
  /\ main = NIL
  /\ argv = <<>>
  /\ ret = NoRet
  /\ invoked = <<>>
  /\ status = -1
  /\ stderr = <<>>
  /\ out = <<>>
  /\ trace = <<>>
  /\ ExitInit

\* ---- operations --------------------------------------------------------

\* The commands a caller hands to Parse or Run: the root of the tree.
Mains == {1}

\* A call of Parse(m, av).
ParseCall ==
  /\ pc = "start"
  /\ \E m \in Mains, av \in Argvs : \E p \in {Parse(m, av)} :
       /\ ret' = [cmd |-> p.cmd, err |-> p.err]
       /\ parent' = p.parent
       /\ Flag' = p.Flag
       /\ stderr' = stderr \o p.stderr
       /\ trace' = p.trace
       /\ main' = m
       /\ argv' = av
  /\ pc' = "Parse"
  /\ UNCHANGED <<Name, RunSet, CustomFlags, Commands, invoked, status, out>>
  /\ UNCHANGED exitVars

\* The messages Run prints for the error err of the command cmd.
RunMessages(cmd, err, args) ==
  IF err = ErrUnknownCommand
  THEN << [msg |-> "unknown command", cmd |-> cmd, arg |-> Head(args)] >>
  ELSE IF err = ErrHelp THEN << [msg |-> "usage", cmd |-> cmd] >>
  ELSE IF err # ErrNil
  THEN << [msg |-> err, cmd |-> cmd], [msg |-> "usage", cmd |-> cmd] >>
  ELSE IF ~RunSet[cmd] THEN << [msg |-> "not runnable", cmd |-> cmd] >>
  ELSE <<>>

\* A faulty Run: a command that is not runnable is run all the same.
RunCallSkipsRunnable ==
  /\ pc = "start"
  /\ \E m \in Mains, osname \in {s_exe}, av \in Argvs, code \in ExitCodes :
     \E p \in {Parse(m, av)} :
     LET cmd == p.cmd
         args == p.Flag[cmd].args
     IN /\ ret' = [cmd |-> p.cmd, err |-> p.err]
        /\ parent' = p.parent
        /\ Flag' = p.Flag
        /\ stderr' = stderr \o p.stderr \o RunMessages(cmd, p.err, args)
        /\ Name' = IF p.err # ErrNil THEN [Name EXCEPT ![m] = osname] ELSE Name
        /\ IF p.err # ErrNil
           THEN /\ status' = ExitUsageError
                /\ invoked' = invoked
                /\ trace' = p.trace
           ELSE IF FALSE
           THEN /\ status' = ExitUsageError
                /\ invoked' = invoked
                /\ trace' = p.trace
           ELSE /\ status' = code
                /\ invoked' = Append(invoked, [cmd |-> cmd, args |-> args])
                /\ trace' = Append(p.trace, Ev("Run", cmd, code))
        /\ main' = m
        /\ argv' = av
  /\ pc' = "Run"
  /\ UNCHANGED <<RunSet, CustomFlags, Commands, out>>
  /\ UNCHANGED exitVars

\* A call of Run(m) with os.Args = <<osname>> \o av; code is what the run
\* behaviour returns if it is invoked.
RunCall ==
  /\ pc = "start"
  /\ \E m \in Mains, osname \in {s_exe}, av \in Argvs, code \in ExitCodes :
     \E p \in {Parse(m, av)} :
     LET cmd == p.cmd
         args == p.Flag[cmd].args
     IN /\ ret' = [cmd |-> p.cmd, err |-> p.err]
        /\ parent' = p.parent
        /\ Flag' = p.Flag
        /\ stderr' = stderr \o p.stderr \o RunMessages(cmd, p.err, args)
        /\ Name' = IF p.err # ErrNil THEN [Name EXCEPT ![m] = osname] ELSE Name
        /\ IF p.err # ErrNil
           THEN /\ status' = ExitUsageError
                /\ invoked' = invoked
                /\ trace' = p.trace
           ELSE IF ~Runnable(cmd)
           THEN /\ status' = ExitUsageError
                /\ invoked' = invoked
                /\ trace' = p.trace
           ELSE /\ status' = code
                /\ invoked' = Append(invoked, [cmd |-> cmd, args |-> args])
                /\ trace' = Append(p.trace, Ev("Run", cmd, code))
        /\ main' = m
        /\ argv' = av
  /\ pc' = "Run"
  /\ UNCHANGED <<RunSet, CustomFlags, Commands, out>>
  /\ UNCHANGED exitVars

\* One call per tree: a tree is built, resolved once and run once.
Next ==
  \/ ParseCall
  \/ RunCall

Spec == Init /\ [][Next]_vars

\* ---- Parse of cmd.go, with the package-level Main -----------------------

\* var Main: the package-level main command. Here it is the command cmd of
\* the tree, whose only child is a.
Main == 2

\* The scan of cmd.go: the first runnable command of cmds named name, or 0.
RECURSIVE lookupMainFrom(_, _, _)
lookupMainFrom(cmds, name, i) ==
  IF i > Len(cmds) THEN 0
  ELSE IF Name[cmds[i]] # name THEN lookupMainFrom(cmds, name, i + 1)
  ELSE IF ~Runnable(cmds[i]) THEN lookupMainFrom(cmds, name, i + 1)
  ELSE i

\* Parse(main, argv) of cmd.go: the loop ranges over Main.Commands, whatever
\* the command main is.
ParseMain(m, av) ==
  LET F0 == configure(Flag, parent, m)
      r == FlagParse(F0[m], av)
      F1 == [F0 EXCEPT ![m] = r.f]
      args == r.f.args
  IN IF r.err # ErrNil
     THEN [cmd |-> m, err |-> r.err, parent |-> parent,
           Flag |-> restore(F1, m), stderr |-> Leak(F0[m], r, m),
           trace |-> RootSteps(F0, m) \o RootReturn(F1, m, r.err)]
     ELSE IF Len(args) < 1
     THEN [cmd |-> m, err |-> ErrNoCommand, parent |-> parent,
           Flag |-> restore(F1, m), stderr |-> <<>>,
           trace |-> RootSteps(F0, m) \o RootReturn(F1, m, ErrNoCommand)]
     ELSE LET i == lookupMainFrom(Commands[Main], args[1], 1) IN
          IF i = 0
          THEN [cmd |-> m, err |-> ErrUnknownCommand, parent |-> parent,
                Flag |-> restore(F1, m), stderr |-> <<>>,
                trace |-> RootSteps(F0, m) \o << Ev("args[0]", m, "") >>
                          \o RootReturn(F1, m, ErrUnknownCommand)]
          ELSE [ParseCommand(F1, m, Commands[Main][i], args)
                  EXCEPT !.trace = RootSteps(F0, m)
                                   \o << Ev("args[0]", m, "") >> \o @]

\* The commands a caller hands to the Parse of cmd.go: its own root, or Main
\* as Run does.
MainsOrMain == {1, Main}

\* A call of the Parse of cmd.go.
ParseMainCall ==
  /\ pc = "start"
  /\ \E m \in MainsOrMain, av \in Argvs : \E p \in {ParseMain(m, av)} :
       /\ ret' = [cmd |-> p.cmd, err |-> p.err]
       /\ parent' = p.parent
       /\ Flag' = p.Flag
       /\ stderr' = stderr \o p.stderr
       /\ trace' = p.trace
       /\ main' = m
       /\ argv' = av
  /\ pc' = "Parse"
  /\ UNCHANGED <<Name, RunSet, CustomFlags, Commands, invoked, status, out>>
  /\ UNCHANGED exitVars

SpecMain == Init /\ [][ParseMainCall]_vars

\* ---- flag sets whose output the caller has set -------------------------

\* Where the caller left the output of a flag set before Parse: untouched
\* (nil, that is os.Stderr) or set with SetOutput to a buffer of its own.
Outputs == {"nil", "buffer"}

\* The tree of Init with runnable children, where the caller may have set the
\* output of the flag sets of test and of cmd.
InitOutput ==
  /\ Name = [c \in Cmds |-> IF c = 1 THEN s_test
                            ELSE IF c = 2 THEN s_cmd ELSE s_a]
  /\ RunSet = [c \in Cmds |-> c # 1]
  /\ \E cf \in BOOLEAN : CustomFlags = [c \in Cmds |-> c = 2 /\ cf]
  /\ Commands = TreeCommands
  /\ parent = [c \in Cmds |-> NIL]
  /\ \E f2 \in {{}, {s_v}}, o1 \in Outputs, o2 \in Outputs :
       Flag = [c \in Cmds |->
                [NewFlagSet(IF c = 2 THEN f2 ELSE {s_v})
                   EXCEPT !.output = IF c = 1 THEN o1
                                     ELSE IF c = 2 THEN o2 ELSE "nil"]]
  /\ pc = "start"
  /\ main = NIL
  /\ argv = <<>>
  /\ ret = NoRet
  /\ invoked = <<>>
  /\ status = -1
  /\ stderr = <<>>
  /\ out = <<>>
  /\ trace = <<>>
  /\ ExitInit

SpecOutput == InitOutput /\ [][ParseCall]_vars

\* ---- hand-built parent chains (buildp) ---------------------------------

\* buildp(tree): one command per name, each the parent of the next.
InitChain ==
  /\ \E n \in 1..NumCmds : \E tree \in [1..n -> ChainNames] :
       /\ Name = [c \in Cmds |-> IF c <= n THEN tree[c] ELSE s_empty]
       /\ parent = [c \in Cmds |-> IF c <= n THEN c - 1 ELSE NIL]
  /\ RunSet = [c \in Cmds |-> FALSE]
  /\ CustomFlags = [c \in Cmds |-> FALSE]
  /\ Commands = [c \in Cmds |-> <<>>]
  /\ Flag = [c \in Cmds |-> NewFlagSet({})]
  /\ pc = "built"
  /\ main = NIL
  /\ argv = <<>>
  /\ ret = NoRet
  /\ invoked = <<>>
  /\ status = -1
  /\ stderr = <<>>
  /\ out = <<>>
  /\ trace = <<>>
  /\ ExitInit

\* A call of c.LongName().
LongNameCall(c) ==
  /\ pc = "built"
  /\ out' = LongName(c)
  /\ pc' = "LongName"
  /\ main' = c
  /\ UNCHANGED <<Name, RunSet, CustomFlags, Commands, parent, Flag, argv, ret,
                 invoked, status, stderr, trace>>
  /\ UNCHANGED exitVars

\* A call of c.String().
StringCall(c) ==
  /\ pc = "built"
  /\ out' = String(c)
  /\ pc' = "String"
  /\ main' = c
  /\ UNCHANGED <<Name, RunSet, CustomFlags, Commands, parent, Flag, argv, ret,
                 invoked, status, stderr, trace>>
  /\ UNCHANGED exitVars

NextChain ==
  \/ \E c \in Cmds : LongNameCall(c)
  \/ \E c \in Cmds : StringCall(c)

SpecNames == InitChain /\ [][NextChain]_vars

\* ---- the exit status: SetExitStatus, GetExitStatus, Errorf, Fatalf, ------
\* ---- ExitIfErrors, AtExit, Exit ----------------------------------------

\* Largest status a caller hands to SetExitStatus.
MaxStatus == 2

\* Longest list of functions registered with AtExit.
MaxFuncs == 2

\* Number of calls the program makes, over all its goroutines.
MaxCalls == 3

\* The arguments of SetExitStatus: a negative one, ExitFailure and the
\* largest status.
Statuses == {0 - 1, ExitFailure, MaxStatus}

\* What a function registered with AtExit does: it calls SetExitStatus(n)
\* with one of these n (SetExitStatus(0) changes nothing).
CallbackStatuses == {0, MaxStatus}

\* The goroutine g starts a call: the process runs, g is making no call and
\* the program has calls left.
MayCall(g) ==
  /\ exited = NoExit
  /\ gor[g].pc = "idle"
  /\ calls < MaxCalls
  /\ calls' = calls + 1

Running(g, at) == exited = NoExit /\ gor[g].pc = at

\* Some goroutine is inside Exit (or inside a function Exit called).
InExit == \E g \in Gors : gor[g].funcs # <<>> \/ gor[g].pc \in {"Exit.range", "os.Exit"}

\* g enters SetExitStatus(n); from tells where it returns to.
Enter(g, n, from, also) ==
  gor' = [gor EXCEPT ![g] = [@ EXCEPT !.pc = "exitMu.Lock", !.n = n,
                                      !.from = from, !.also = also,
                                      !.did = "", !.got = NoExit]]

\* g enters Exit: the range clause evaluates atExitFuncs once.
EnterExit(g) ==
  gor' = [gor EXCEPT ![g] = [@ EXCEPT !.pc = "Exit.range", !.i = 1,
                                      !.funcs = atExitFuncs, !.called = <<>>,
                                      !.did = "", !.got = NoExit]]

\* g is back from the call of fn the program made.
Return(g, fn) ==
  gor' = [gor EXCEPT ![g] = [@ EXCEPT !.pc = "idle", !.from = "", !.also = "",
                                      !.did = fn, !.got = NoExit]]

\* An access of g to exitStatus in the function fn: who held exitMu, and
\* the value before and after.
Access(g, fn, kind, new) ==
  access' = [gor |-> g, in |-> fn, kind |-> kind, holder |-> exitMu,
             old |-> exitStatus, new |-> new]

\* AtExit(f): f is the next function, and calls SetExitStatus(n). AtExit
\* takes no lock: functions are registered by the first goroutine, before
\* Exit runs.
AtExit(g) ==
  /\ MayCall(g)
  /\ g = 1
  /\ ~InExit
  /\ Len(atExitFuncs) < MaxFuncs
  /\ \E n \in CallbackStatuses :
       atExitFuncs' = Append(atExitFuncs, [id |-> Len(atExitFuncs) + 1, n |-> n])
  /\ Return(g, "AtExit")
  /\ UNCHANGED <<exitStatus, exitMu, raised, exited, access>>
  /\ UNCHANGED cmdVars

\* A call of SetExitStatus(n) by the program.
SetExitStatus(g) ==
  /\ MayCall(g)
  /\ \E n \in Statuses : Enter(g, n, "", "")
  /\ UNCHANGED <<exitStatus, exitMu, atExitFuncs, raised, exited, access>>
  /\ UNCHANGED cmdVars

\* A faulty exitMu.Lock: the mutex is taken though another goroutine holds it.
LockAlways(g) ==
  /\ Running(g, "exitMu.Lock")
  /\ exitMu' = g
  /\ gor' = [gor EXCEPT ![g].pc = "if exitStatus < n"]
  /\ UNCHANGED <<exitStatus, atExitFuncs, raised, exited, access>>
  /\ UNCHANGED calls
  /\ UNCHANGED cmdVars

\* exitMu.Lock() in SetExitStatus: g waits until the mutex is free.
Lock(g) ==
  /\ Running(g, "exitMu.Lock")
  /\ exitMu = NoGor
  /\ exitMu' = g
  /\ gor' = [gor EXCEPT ![g].pc = "if exitStatus < n"]
  /\ UNCHANGED <<exitStatus, atExitFuncs, raised, exited, access>>
  /\ UNCHANGED calls
  /\ UNCHANGED cmdVars

\* if exitStatus < n
Test(g) ==
  /\ Running(g, "if exitStatus < n")
  /\ Access(g, "SetExitStatus", "read", exitStatus)
  /\ gor' = [gor EXCEPT ![g].pc = IF exitStatus < gor[g].n
                                  THEN "exitStatus = n" ELSE "exitMu.Unlock"]
  /\ UNCHANGED <<exitStatus, exitMu, atExitFuncs, raised, exited>>
  /\ UNCHANGED calls
  /\ UNCHANGED cmdVars

\* A faulty assignment: the status is raised by one, not to n.
AssignOneMore(g) ==
  /\ Running(g, "exitStatus = n")
  /\ exitStatus' = exitStatus + 1
  /\ Access(g, "SetExitStatus", "write", exitStatus + 1)
  /\ gor' = [gor EXCEPT ![g].pc = "exitMu.Unlock"]
  /\ UNCHANGED <<exitMu, atExitFuncs, raised, exited>>
  /\ UNCHANGED calls
  /\ UNCHANGED cmdVars

\* exitStatus = n
Assign(g) ==
  /\ Running(g, "exitStatus = n")
  /\ exitStatus' = gor[g].n
  /\ Access(g, "SetExitStatus", "write", gor[g].n)
  /\ gor' = [gor EXCEPT ![g].pc = "exitMu.Unlock"]
  /\ UNCHANGED <<exitMu, atExitFuncs, raised, exited>>
  /\ UNCHANGED calls
  /\ UNCHANGED cmdVars

\* exitMu.Unlock() and the return of SetExitStatus: to the program, to
\* Errorf (which returns, or goes on in Fatalf with Exit), or to the loop of
\* Exit.
Unlock(g) ==
  /\ Running(g, "exitMu.Unlock")
  /\ exitMu' = NoGor
  /\ raised' = raised \cup {gor[g].n}
  /\ IF gor[g].from = "Exit"
     THEN gor' = [gor EXCEPT ![g] = [@ EXCEPT !.pc = "Exit.range", !.i = @ + 1]]
     ELSE IF gor[g].also = "Fatalf"
     THEN EnterExit(g)
     ELSE Return(g, IF gor[g].from = "Errorf" THEN "Errorf" ELSE "SetExitStatus")
  /\ UNCHANGED <<exitStatus, atExitFuncs, exited, access>>
  /\ UNCHANGED calls
  /\ UNCHANGED cmdVars

\* GetExitStatus(): return exitStatus. got keeps the value returned.
GetExitStatus(g) ==
  /\ MayCall(g)
  /\ Access(g, "GetExitStatus", "read", exitStatus)
  /\ gor' = [gor EXCEPT ![g] = [@ EXCEPT !.got = exitStatus,
                                         !.did = "GetExitStatus"]]
  /\ UNCHANGED <<exitStatus, exitMu, atExitFuncs, raised, exited>>
  /\ UNCHANGED cmdVars

\* Errorf: prints, then SetExitStatus(1).
Errorf(g) ==
  /\ MayCall(g)
  /\ Enter(g, ExitFailure, "Errorf", "")
  /\ UNCHANGED <<exitStatus, exitMu, atExitFuncs, raised, exited, access>>
  /\ UNCHANGED cmdVars

\* Fatalf: Errorf, then Exit.
Fatalf(g) ==
  /\ MayCall(g)
  /\ Enter(g, ExitFailure, "Errorf", "Fatalf")
  /\ UNCHANGED <<exitStatus, exitMu, atExitFuncs, raised, exited, access>>
  /\ UNCHANGED cmdVars

\* ExitIfErrors: if exitStatus != 0 { Exit() }
ExitIfErrors(g) ==
  /\ MayCall(g)
  /\ Access(g, "ExitIfErrors", "read", exitStatus)
  /\ IF exitStatus # 0 THEN EnterExit(g) ELSE Return(g, "ExitIfErrors")
  /\ UNCHANGED <<exitStatus, exitMu, atExitFuncs, raised, exited>>
  /\ UNCHANGED cmdVars

\* A call of Exit() by the program.
Exit(g) ==
  /\ MayCall(g)
  /\ EnterExit(g)
  /\ UNCHANGED <<exitStatus, exitMu, atExitFuncs, raised, exited, access>>
  /\ UNCHANGED cmdVars

\* A faulty loop of Exit: the functions are called last in, first out.
RangeLIFO(g) ==
  /\ Running(g, "Exit.range")
  /\ LET fs == gor[g].funcs
         i == gor[g].i
     IN IF i <= Len(fs)
        THEN gor' = [gor EXCEPT ![g] =
                       [@ EXCEPT !.pc = "exitMu.Lock", !.n = fs[Len(fs) + 1 - i].n,
                                 !.from = "Exit",
                                 !.called = Append(@, fs[Len(fs) + 1 - i])]]
        ELSE gor' = [gor EXCEPT ![g].pc = "os.Exit"]
  /\ UNCHANGED <<exitStatus, exitMu, atExitFuncs, raised, exited, access>>
  /\ UNCHANGED calls
  /\ UNCHANGED cmdVars

\* for _, f := range atExitFuncs { f() }: the next function is called, or
\* the loop ends.
Range(g) ==
  /\ Running(g, "Exit.range")
  /\ LET fs == gor[g].funcs
         i == gor[g].i
     IN IF i <= Len(fs)
        THEN gor' = [gor EXCEPT ![g] =
                       [@ EXCEPT !.pc = "exitMu.Lock", !.n = fs[i].n,
                                 !.from = "Exit",
                                 !.called = Append(@, fs[i])]]
        ELSE gor' = [gor EXCEPT ![g].pc = "os.Exit"]
  /\ UNCHANGED <<exitStatus, exitMu, atExitFuncs, raised, exited, access>>
  /\ UNCHANGED calls
  /\ UNCHANGED cmdVars

\* os.Exit(exitStatus): the process ends, no goroutine takes another step.
OsExit(g) ==
  /\ Running(g, "os.Exit")
  /\ Access(g, "Exit", "read", exitStatus)
  /\ exited' = exitStatus
  /\ gor' = [gor EXCEPT ![g].pc = "exited"]
  /\ UNCHANGED <<exitStatus, exitMu, atExitFuncs, raised>>
  /\ UNCHANGED calls
  /\ UNCHANGED cmdVars

\* A program that resolves no command and only uses the exit status.
InitExit ==
  /\ Name = [c \in Cmds |-> s_empty]
  /\ RunSet = [c \in Cmds |-> FALSE]
  /\ CustomFlags = [c \in Cmds |-> FALSE]
  /\ Commands = [c \in Cmds |-> <<>>]
  /\ parent = [c \in Cmds |-> NIL]
  /\ Flag = [c \in Cmds |-> NewFlagSet({})]
  /\ pc = "exit"
  /\ main = NIL
  /\ argv = <<>>
  /\ ret = NoRet
  /\ invoked = <<>>
  /\ status = -1
  /\ stderr = <<>>
  /\ out = <<>>
  /\ trace = <<>>
  /\ ExitInit

NextExit ==
  \/ \E g \in Gors : AtExit(g)
  \/ \E g \in Gors : SetExitStatus(g)
  \/ \E g \in Gors : Lock(g)
  \/ \E g \in Gors : Test(g)
  \/ \E g \in Gors : Assign(g)
  \/ \E g \in Gors : Unlock(g)
  \/ \E g \in Gors : GetExitStatus(g)
  \/ \E g \in Gors : Errorf(g)
  \/ \E g \in Gors : Fatalf(g)
  \/ \E g \in Gors : ExitIfErrors(g)
  \/ \E g \in Gors : Exit(g)
  \/ \E g \in Gors : Range(g)
  \/ \E g \in Gors : OsExit(g)

SpecExit == InitExit /\ [][NextExit]_vars

\* ---- reading an argument vector, for the properties --------------------

Terminator == <<"-", "-">>

FlagShaped(tok) == Len(tok) >= 2 /\ tok[1] = "-"

\* The flag a flag-shaped token names: the token less one or two minus signs.
FlagName(tok) ==
  IF tok[2] = "-" THEN SubSeq(tok, 3, Len(tok)) ELSE SubSeq(tok, 2, Len(tok))

\* tok sets a flag the command c defines.
DefinedFlag(c, tok) ==
  FlagShaped(tok) /\ tok # Terminator /\ FlagName(tok) \in Flag[c].formal

\* tok asks for help and c defines no such flag.
HelpFlag(c, tok) ==
  /\ FlagShaped(tok) /\ tok # Terminator
  /\ FlagName(tok) \in {s_h, s_help}
  /\ FlagName(tok) \notin Flag[c].formal

\* tok is flag-shaped and c does not define it: parsing it fails.
RejectedFlag(c, tok) ==
  FlagShaped(tok) /\ tok # Terminator /\ FlagName(tok) \notin Flag[c].formal

\* The number of leading tokens of av that set flags c defines.
RECURSIVE Lead(_, _)
Lead(c, av) ==
  IF av # <<>> /\ DefinedFlag(c, Head(av)) THEN 1 + Lead(c, Tail(av)) ELSE 0

\* The index in av of the first positional argument after c's flags; 0 when
\* there is none or when a flag of av is rejected first.
PosIndex(c, av) ==
  LET k == Lead(c, av) IN
  IF k = Len(av) THEN 0
  ELSE IF av[k + 1] = Terminator THEN (IF k + 2 <= Len(av) THEN k + 2 ELSE 0)
  ELSE IF FlagShaped(av[k + 1]) THEN 0
  ELSE k + 1

\* The index in av of the first flag c rejects, 0 when c's flags parse.
RejectIndex(c, av) ==
  LET k == Lead(c, av) IN
  IF k < Len(av) /\ RejectedFlag(c, av[k + 1]) THEN k + 1 ELSE 0

\* The names of the flags the first n tokens of av set.
FlagsIn(av, n) == {FlagName(av[i]) : i \in 1..n}

After(av, i) == SubSeq(av, i + 1, Len(av))

\* The commands of m named name, and the first of them (NIL when none).
Named(m, name) == {i \in 1..Len(Commands[m]) : Name[Commands[m][i]] = name}

FirstNamed(m, name) ==
  IF Named(m, name) = {} THEN NIL
  ELSE Commands[m][CHOOSE i \in Named(m, name) : \A j \in Named(m, name) : i <= j]

Called == pc \in {"Parse", "Run"}

\* The command the first positional argument of argv selects in main.
Selected == IF PosIndex(main, argv) = 0 THEN NIL
            ELSE FirstNamed(main, argv[PosIndex(main, argv)])

\* The tokens after the subcommand selector.
Rest == After(argv, PosIndex(main, argv))

\* ---- C1 ----------------------------------------------------------------

\* C1: when the root's flags parse and leave no positional argument (the
\* empty vector included), Parse returns the root with ErrNoCommand and no
\* command gets a parent.
C1_NoCommand ==
  (Called /\ PosIndex(main, argv) = 0 /\ RejectIndex(main, argv) = 0)
    => /\ ret = [cmd |-> main, err |-> ErrNoCommand]
       /\ \A c \in Cmds : parent[c] = NIL

\* C1 happens: flags and a terminator only, answered by ErrNoCommand.
C1_Witness ==
  /\ pc = "Parse" /\ Len(argv) = 2 /\ argv[2] = Terminator
  /\ DefinedFlag(main, argv[1])
  /\ ret = [cmd |-> main, err |-> ErrNoCommand]

\* ---- C2 ----------------------------------------------------------------

\* C2: for a root with a runnable child named X (names unique among the
\* children), Parse(root, [X]) returns that child and no error, the child's
\* parent is the root, String() is "<root name> X" and LongName() is "X".
C2_SelectsChild ==
  \A c \in Cmds :
    (/\ Called /\ Len(argv) = 1
     /\ \E i \in 1..Len(Commands[main]) : Commands[main][i] = c
     /\ Name[c] = argv[1] /\ Cardinality(Named(main, argv[1])) = 1
     /\ RunSet[c] /\ parent[main] = NIL)
      => /\ ret = [cmd |-> c, err |-> ErrNil]
         /\ parent[c] = main
         /\ String(c) = Name[main] \o <<" ">> \o argv[1]
         /\ LongName(c) = argv[1]

\* C2 happens: the runnable child cmd of test was selected by [cmd].
C2_Witness ==
  /\ pc = "Parse" /\ main = 1 /\ argv = <<s_cmd>>
  /\ Cardinality(Named(1, s_cmd)) = 1 /\ RunSet[2]
  /\ ret = [cmd |-> 2, err |-> ErrNil]
  /\ String(2) = s_test \o <<" ">> \o s_cmd

\* ---- C3 ----------------------------------------------------------------

Failed == ret.err \notin {ErrNil, ErrNoCommand, ErrUnknownCommand}

\* C4: a help flag (-h, -help) the receiving flag set does not define gives
\* ErrHelp: with the root when it comes before any subcommand token, with
\* the matched child when it comes after the subcommand token.
C4_Help ==
  /\ (/\ Called /\ RejectIndex(main, argv) > 0
      /\ HelpFlag(main, argv[RejectIndex(main, argv)]))
       => ret = [cmd |-> main, err |-> ErrHelp]
  /\ (/\ Called /\ Selected # NIL /\ ~CustomFlags[Selected]
      /\ RejectIndex(Selected, Rest) > 0
      /\ HelpFlag(Selected, Rest[RejectIndex(Selected, Rest)]))
       => ret = [cmd |-> Selected, err |-> ErrHelp]

\* C4 happens: -help after the subcommand token and one of its flags.
C4_Witness ==
  /\ pc = "Parse" /\ main = 1
  /\ argv = <<s_cmd, <<"-">> \o s_v, <<"-">> \o s_help>>
  /\ Selected = 2 /\ DefinedFlag(2, argv[2]) /\ HelpFlag(2, argv[3])
  /\ ret = [cmd |-> 2, err |-> ErrHelp]

\* ---- C5 ----------------------------------------------------------------

\* C5: Parse returns a command with every outcome: the root for a failure
\* of the root's flags, for ErrNoCommand and for ErrUnknownCommand; the
\* matched child, its parent set to the root, for a failure of the child's
\* flags, and never the root then.
C5_ReturnsCommand ==
  Called =>
    /\ ret.cmd \in Cmds
    /\ ret.err \in {ErrNoCommand, ErrUnknownCommand} => ret.cmd = main
    /\ RejectIndex(main, argv) > 0 => (ret.cmd = main /\ Failed)
    /\ (/\ Selected # NIL /\ ~CustomFlags[Selected]
        /\ RejectIndex(Selected, Rest) > 0)
         => /\ ret.cmd = Selected /\ ret.cmd # main /\ Failed
            /\ parent[Selected] = main

\* C5 happens: the child's flag set rejected a flag only the root defines.
C5_Witness ==
  /\ pc = "Parse" /\ main = 1
  /\ argv = <<<<"-">> \o s_v, s_cmd, <<"-">> \o s_v>>
  /\ Selected = 2 /\ RejectIndex(2, Rest) = 1
  /\ ret = [cmd |-> 2, err |-> ErrNotDefined] /\ parent[2] = 1

\* ---- C6 ----------------------------------------------------------------

\* The residual arguments of c for the tokens av: what follows c's flags and
\* the terminator, if one ends them.
Residual(c, av) ==
  LET k == Lead(c, av) IN
  IF k < Len(av) /\ av[k + 1] = Terminator THEN After(av, k + 1) ELSE After(av, k)

\* C6: for [root flags..., X, child tokens...] the tokens before X are
\* parsed by the root's flag set only and those after X by the child's only:
\* the root flags before X read as set, the child flags after X read as set,
\* the child is returned and its residual arguments are the positionals after
\* its flags; a flag only the root defines is not accepted after X.
C6_FlagDelegation ==
  (Called /\ Selected # NIL /\ ~CustomFlags[Selected]) =>
    LET c == Selected IN
    /\ Flag[main].actual = FlagsIn(argv, Lead(main, argv))
    /\ RejectIndex(c, Rest) = 0
         => /\ ret = [cmd |-> c, err |-> ErrNil] /\ c # main
            /\ Flag[c].actual = FlagsIn(Rest, Lead(c, Rest))
            /\ Flag[c].args = Residual(c, Rest)
    /\ (RejectIndex(c, Rest) > 0 /\ DefinedFlag(main, Rest[RejectIndex(c, Rest)]))
         => /\ ret.cmd = c /\ ret.err \in {ErrNotDefined, ErrHelp}
            /\ Flag[c].actual = FlagsIn(Rest, Lead(c, Rest))

\* C6 happens: [-v, cmd, -v, a] with -v defined by the root and by cmd.
C6_Witness ==
  /\ pc = "Parse" /\ main = 1
  /\ argv = <<<<"-">> \o s_v, s_cmd, <<"-">> \o s_v, s_a>>
  /\ ret = [cmd |-> 2, err |-> ErrNil]
  /\ Flag[1].actual = {s_v} /\ Flag[2].actual = {s_v} /\ Flag[2].args = <<s_a>>

\* ---- C7 ----------------------------------------------------------------

\* C7: for a matched child with CustomFlags, after Parse(root, [X, t1..tn])
\* returned no error the child's residual arguments (cmd.Flag.Args(), which
\* Run hands to the run behaviour) are [t1..tn] and none of its flags is set.
C7_CustomFlags ==
  (/\ Called /\ PosIndex(main, argv) = 1 /\ Selected # NIL
   /\ CustomFlags[Selected] /\ ret.err = ErrNil)
    => /\ Flag[Selected].args = Tail(argv)
       /\ Flag[Selected].actual = {}
       /\ (pc = "Run" /\ RunSet[Selected])
            => invoked = <<[cmd |-> Selected, args |-> Tail(argv)]>>

\* ---- C8 ----------------------------------------------------------------

\* C8: [cmd, -flag, arg...] where cmd defines the boolean flag returns cmd
\* and no error, the flag reads true and the residual arguments are the
\* tokens after the flag; Run hands them to cmd's run behaviour.
C8_FlagRoundTrip ==
  (/\ Called /\ Len(argv) >= 3 /\ PosIndex(main, argv) = 1 /\ Selected # NIL
   /\ ~CustomFlags[Selected] /\ DefinedFlag(Selected, argv[2])
   /\ ~FlagShaped(argv[3]))
    => /\ ret = [cmd |-> Selected, err |-> ErrNil]
       /\ FlagName(argv[2]) \in Flag[Selected].actual
       /\ Flag[Selected].args = After(argv, 2)
       /\ (pc = "Run" /\ RunSet[Selected])
            => /\ invoked = <<[cmd |-> Selected, args |-> After(argv, 2)]>>
               /\ status \in ExitCodes

\* C8 happens: Run with [cmd, -v, a, a] ran cmd with the arguments [a, a].
C8_Witness ==
  /\ pc = "Run" /\ main = 1
  /\ argv = <<s_cmd, <<"-">> \o s_v, s_a, s_a>>
  /\ s_v \in Flag[2].actual
  /\ invoked = <<[cmd |-> 2, args |-> <<s_a, s_a>>]>>

\* ---- C9 ----------------------------------------------------------------

\* C9: Parse resolves below the first level: in the tree test -> cmd -> a,
\* [cmd] gives (cmd, ErrNoCommand), [cmd, a] gives (a, nil), [cmd, cmd] gives
\* (cmd, ErrUnknownCommand), [cmd, a, -h] gives (a, ErrHelp) and
\* [cmd, a, -v, a] sets a's flag and leaves [a] as its residual arguments.
C9_Nested ==
  (/\ Called /\ main = 1 /\ Cardinality(Named(1, s_cmd)) = 1
   /\ ~CustomFlags[2])
    => /\ argv = <<s_cmd>> => ret = [cmd |-> 2, err |-> ErrNoCommand]
       /\ argv = <<s_cmd, s_a>> => ret = [cmd |-> 4, err |-> ErrNil]
       /\ argv = <<s_cmd, s_cmd>> => ret = [cmd |-> 2, err |-> ErrUnknownCommand]
       /\ argv = <<s_cmd, s_a, <<"-">> \o s_h>>
            => ret = [cmd |-> 4, err |-> ErrHelp]
       /\ argv = <<s_cmd, s_a, <<"-">> \o s_v, s_a>>
            => /\ ret = [cmd |-> 4, err |-> ErrNil]
               /\ s_v \in Flag[4].actual /\ Flag[4].args = <<s_a>>

\* ---- C10 ---------------------------------------------------------------

\* names joined by single spaces.
RECURSIVE Join(_)
Join(names) ==
  IF names = <<>> THEN s_empty
  ELSE IF Len(names) = 1 THEN names[1]
  ELSE names[1] \o <<" ">> \o Join(Tail(names))

\* The names from the root down to c in a chain built by buildp, where the
\* ancestors of command c are the commands 1..c-1.
ChainOf(c) ==
  IF parent[c] = NIL THEN <<Name[c]>> ELSE [i \in 1..c |-> Name[i]]

\* C10: for a parent chain root -> ... -> c of any length, c.String() is the
\* names from the root to c joined by single spaces and c.LongName() the
\* same without the root's name; a command with a nil parent has LongName()
\* "" and String() its own name; String() is the root's name, a space and
\* LongName() for every command with a parent.
C10_Names ==
  /\ pc = "String" => out = Join(ChainOf(main))
  /\ pc = "LongName"
       => out = IF parent[main] = NIL THEN s_empty ELSE Join(Tail(ChainOf(main)))
  /\ \A c \in Cmds :
       IF parent[c] = NIL
       THEN LongName(c) = s_empty /\ String(c) = Name[c]
       ELSE String(c) = Name[1] \o <<" ">> \o LongName(c)

\* C10 happens: String() of the last command of test -> cmd -> a -> a.
C10_Witness ==
  /\ pc = "String" /\ main = 4 /\ parent[4] = 3 /\ parent[3] = 2 /\ parent[2] = 1
  /\ Name[1] = s_test /\ Name[2] = s_cmd /\ Name[3] = s_a /\ Name[4] = s_a
  /\ out = <<"t", "e", "s", "t", " ", "c", "m", "d", " ", "a", " ", "a">>
  /\ LongName(4) = <<"c", "m", "d", " ", "a", " ", "a">>

\* ---- C11 ---------------------------------------------------------------

\* The steps of the trace that configure, parse or restore a flag set.
StepsOf(op) == {i \in 1..Len(trace) : trace[i].op = op}

C12_Run ==
  pc = "Run" =>
    IF ret.err = ErrNil /\ RunSet[ret.cmd]
    THEN /\ invoked = << [cmd |-> ret.cmd, args |-> Flag[ret.cmd].args] >>
         /\ StepsOf("Run") = {Len(trace)}
         /\ trace[Len(trace)].cmd = ret.cmd
         /\ status = trace[Len(trace)].arg
    ELSE /\ invoked = <<>>
         /\ StepsOf("Run") = {}
         /\ status = ExitUsageError
         /\ status = 2

\* C12 happens: Run with [cmd, a] ran cmd once with [a] and returned the 1
\* that cmd's run behaviour returned.
C12_Witness ==
  /\ pc = "Run" /\ main = 1 /\ argv = <<s_cmd, s_a>>
  /\ ret = [cmd |-> 2, err |-> ErrNil] /\ RunSet[2]
  /\ invoked = << [cmd |-> 2, args |-> <<s_a>>] >>
  /\ trace[Len(trace)] = Ev("Run", 2, 1)
  /\ status = 1

\* ---- C13 ---------------------------------------------------------------

\* The greatest element of a non-empty set of integers.
Max(S) == CHOOSE x \in S : \A y \in S : y <= x

\* The goroutines inside SetExitStatus, and what they asked for.
InSetExitStatus ==
  {g \in Gors : gor[g].pc \in {"exitMu.Lock", "if exitStatus < n",
                               "exitStatus = n", "exitMu.Unlock"}}

\* C13: the exit status starts at 0 and is the greatest of 0 and the
\* arguments of the SetExitStatus calls made so far, whatever their
\* interleaving: no completed raise is lost, no write lowers the status, and
\* once the calls have returned GetExitStatus() returns max(0, n1, ..., nk).
C13_MonotonicMax ==
  /\ \A n \in raised : exitStatus >= n
  /\ exitStatus \in {0} \cup raised \cup {gor[g].n : g \in InSetExitStatus}
  /\ InSetExitStatus = {} => exitStatus = Max({0} \cup raised)
  /\ access.kind = "write" => access.new > access.old
  /\ \A g \in Gors :
       (/\ InSetExitStatus = {} /\ gor[g].did = "GetExitStatus"
        /\ access.gor = g /\ access.in = "GetExitStatus")
         => gor[g].got = Max({0} \cup raised)

\* C13 happens: the two goroutines raised the status to 1 and to 2, and the
\* GetExitStatus() that followed returned 2.
C13_Witness ==
  /\ raised = {1, 2} /\ InSetExitStatus = {}
  /\ gor[1].did = "SetExitStatus" /\ gor[1].n = 1
  /\ gor[2].did = "GetExitStatus" /\ gor[2].n = 2 /\ gor[2].got = 2
  /\ access.gor = 2 /\ access.in = "GetExitStatus"
  /\ exitStatus = 2

\* ---- C14 ---------------------------------------------------------------

\* The goroutine g is just back from the call of fn: no goroutine has read
\* or written exitStatus since g did in that call.
JustDid(g, fn) ==
  /\ gor[g].pc = "idle" /\ gor[g].did = fn
  /\ access.gor = g /\ access.in = "SetExitStatus"

\* The goroutine g ended the process from Fatalf.
FatalfExited(g) == gor[g].pc = "exited" /\ gor[g].also = "Fatalf"

PastRange == {g \in Gors : gor[g].pc \in {"os.Exit", "exited"}}

C19_Guarded ==
  access.kind # "" =>
    /\ access.in \in {"SetExitStatus", "GetExitStatus", "ExitIfErrors", "Exit"}
    /\ access.holder = access.gor

\* ---- C16 ---------------------------------------------------------------

\* The steps of the trace on the flag set or the parent of the command c.
StepsOn(op, c) == {i \in StepsOf(op) : trace[i].cmd = c}

\* C16: within one Parse call the root's flags are parsed first, and the
\* subcommand token is inspected only after them; a child gets its parent
\* and has its flags parsed only after it matched and the root's flags
\* parsed; each flag set is parsed at most once; the call returns once, with
\* one of root parse error or help, NoCommand, UnknownCommand, child parse
\* error, child resolved, and nothing but the restores follows; on a path
\* that returns from the root level no child's flag set is touched.
C16_StepOrder ==
  Called =>
    LET returns == StepsOf("return")
        children == {c \in Cmds : c # main}
    IN
    /\ Len(trace) >= 4
    /\ trace[1].op = "configure" /\ trace[1].cmd = main
    /\ trace[2].op = "Flag.Parse" /\ trace[2].cmd = main
    /\ \A i \in StepsOf("args[0]") : i = 3 /\ RejectIndex(main, argv) = 0
    /\ \A c \in children :
         /\ \A i \in StepsOn("parent", c) :
              /\ 3 \in StepsOf("args[0]") /\ i = 4
              /\ c = Selected
         /\ \A i \in StepsOn("configure", c) : i - 1 \in StepsOn("parent", c)
         /\ \A i \in StepsOn("Flag.Parse", c) : i - 1 \in StepsOn("configure", c)
         /\ Flag[c].parsed <=> StepsOn("Flag.Parse", c) # {}
         /\ StepsOn("parent", c) # {} <=> parent[c] = main
    /\ \A c \in Cmds : Cardinality(StepsOn("Flag.Parse", c)) <= 1
    /\ Cardinality(returns) = 1
    /\ \A i \in returns :
         /\ ret = [cmd |-> trace[i].cmd, err |-> trace[i].arg]
         /\ \A j \in (i + 1)..Len(trace) : trace[j].op \in {"restore", "Run"}
         /\ \/ ret.cmd = main /\ Failed /\ i = 3
            \/ ret = [cmd |-> main, err |-> ErrNoCommand] /\ i = 3
            \/ ret = [cmd |-> main, err |-> ErrUnknownCommand] /\ i = 4
            \/ ret.cmd # main /\ Failed /\ i = 7
            \/ ret.cmd # main /\ ret.err = ErrNil /\ i \in {6, 7}
    /\ ret.cmd = main
         => \A c \in children :
              /\ \A i \in 1..Len(trace) : trace[i].cmd # c
              /\ ~Flag[c].parsed /\ parent[c] = NIL

\* C16 happens: [-v, cmd, -h] parsed the root's flags, matched cmd, set its
\* parent, parsed its flags once and returned ErrHelp with cmd.
C16_Witness ==
  /\ pc = "Parse" /\ main = 1
  /\ argv = <<<<"-">> \o s_v, s_cmd, <<"-">> \o s_h>>
  /\ ret = [cmd |-> 2, err |-> ErrHelp]
  /\ [i \in 1..Len(trace) |-> <<trace[i].op, trace[i].cmd>>]
       = << <<"configure", 1>>, <<"Flag.Parse", 1>>, <<"args[0]", 1>>,
            <<"parent", 2>>, <<"configure", 2>>, <<"Flag.Parse", 2>>,
            <<"return", 2>>, <<"restore", 2>>, <<"restore", 1>> >>
  /\ Flag[1].parsed /\ Flag[2].parsed /\ ~Flag[3].parsed

\* ---- C17 ---------------------------------------------------------------

\* The commands whose parent a step changes.
Reparented == {c \in Cmds : parent'[c] # parent[c]}

\* C17: a call of Parse leaves every Commands list as it was, and the names
\* and the other fields of every command; it leaves the root's parent nil;
\* it changes the parent of at most one command, the matched child, which
\* it returns; when it ends with a failure of the root's flags, with
\* ErrNoCommand or with ErrUnknownCommand it changes no parent.
C17_Frame ==
  [][(pc = "start" /\ pc' = "Parse") =>
       /\ Commands' = Commands
       /\ Name' = Name /\ RunSet' = RunSet /\ CustomFlags' = CustomFlags
       /\ parent[main'] = NIL /\ parent'[main'] = NIL
       /\ Cardinality(Reparented) <= 1
       /\ \A c \in Reparented :
            /\ c = ret'.cmd /\ c # main' /\ parent'[c] = main'
            /\ \E i \in 1..Len(Commands[main']) : Commands[main'][i] = c
       /\ ret'.cmd = main' => Reparented = {}
       /\ \A c \in Cmds :
            Flag'[c] # Flag[c] => c \in {main', ret'.cmd}]_vars

\* C17 happens: with two children named cmd, [cmd] gave the first of them
\* its parent and left the other one, and every Commands list, alone.
C17_Witness ==
  /\ pc = "Parse" /\ main = 1 /\ argv = <<s_cmd>>
  /\ Name[2] = s_cmd /\ Name[3] = s_cmd
  /\ ret.cmd = 2
  /\ parent = [c \in Cmds |-> IF c = 2 THEN 1 ELSE NIL]
  /\ Commands = TreeCommands

\* ---- C18 ---------------------------------------------------------------

\* The commands of the list Commands of m.
ChildrenOf(m) == {Commands[m][i] : i \in 1..Len(Commands[m])}

\* C18: the command Parse(main, argv) returns is main or one of
\* main.Commands, and then the first of them whose name is the subcommand
\* token; the children of no other command, the package-level Main
\* included, have a part in it.
C18_OwnChildren ==
  pc = "Parse" =>
    /\ ret.cmd \in {main} \cup ChildrenOf(main)
    /\ ret.cmd # main => ret.cmd = Selected

====
